---- MODULE Spec2Model ----
(***************************************************************************)
(* A model of PgVector (prototype/vagentic/vectordb/pgvector.py): the      *)
(* collection's table in the backing store, the batched insert / upsert    *)
(* write paths with their commit boundaries, the existence and count       *)
(* queries, provisioning, search with its recovery path, and the list      *)
(* sizing of optimize().                                                   *)
(*                                                                         *)
(* Strings of the program are sequences of one-character strings, so that  *)
(* the replacement of NUL characters and the digest are computed, not      *)
(* assumed.  md5 is modelled as an injective tagging of its input          *)
(* (collisions of md5 are outside the model).                              *)
(***************************************************************************)
EXTENDS Integers, Sequences, FiniteSets, TLC

\* ------------------------------------------------------------------ bounds
MaxDocs == 4        \* longest document list handed to one insert / upsert call
MaxBatch == 2       \* largest batch_size argument
MaxCalls == 2       \* write calls (insert / upsert) per behaviour
MaxSilent == 1      \* times per behaviour the provider returns nothing

\* ---------------------------------------------------------- values of fields
None == "None"                  \* Python None / SQL NULL in a scalar column
NoneId == <<"None">>            \* Document.id is None
EmptyId == <<>>                 \* Document.id is the empty string ""
NUL == "x00"                    \* the character "\x00"
REPL == "ufffd"                 \* the character "�"

\* document.content.replace("\x00", "�")
cleaned_content(content) ==
    [k \in 1..Len(content) |-> IF content[k] = NUL THEN REPL ELSE content[k]]

\* md5(text.encode()).hexdigest(): injective in the text, and never the text
content_hash(cleaned) == <<"md5">> \o cleaned

\* `document.id or content_hash`: Python's `or` takes the right operand when
\* the left one is falsy, which None and the empty string both are
\*   (faulty variant: the caller's id is ignored)
IdentityAlwaysHash(id, hash) == hash
Identity(id, hash) == IF id = NoneId \/ id = EmptyId THEN hash ELSE id

\* ------------------------------------------------------------- the embedder
Dimensions == 2                 \* self.embedder.dimensions

\* The vector the provider returns for a text (a fixed function of the text)
Embed(text) ==
    << Len(text), Cardinality({k \in 1..Len(text) : text[k] = "a"}) >>

\* What document.embed() can leave in document.embedding:
\*   "ok"     the provider's vector
\*   "none"   the provider returned nothing: embedding stays None
\*   "baddim" a vector whose length is not the collection's dimensionality
\*   "fail"   the provider call raises
EmbedOutcomes == {"ok", "none", "baddim", "fail"}

NoEmbedding == <<>>             \* document.embedding is None / a NULL vector

EmbeddingOf(content, outcome) ==
    CASE outcome = "ok" -> Embed(content)
      [] outcome = "baddim" -> <<Len(content)>>
      [] OTHER -> NoEmbedding

\* ---------------------------------------------------------------- documents
\* The documents callers pass: two with one id and different fields, one with
\* no id and no name, one with the empty string as id; two of the contents
\* differ only by NUL against the replacement character.
Documents ==
    { [id |-> <<"x">>, name |-> "n1", meta_data |-> "m1", content |-> <<"a">>,
       usage |-> "u1"],
      [id |-> <<"x">>, name |-> "n2", meta_data |-> "m2", content |-> <<"a", REPL>>,
       usage |-> "u2"],
      [id |-> NoneId, name |-> None, meta_data |-> "m1", content |-> <<"a", NUL>>,
       usage |-> "u1"],
      [id |-> EmptyId, name |-> "n1", meta_data |-> "m2", content |-> <<"a">>,
       usage |-> "u2"] }

\* ------------------------------------------------------------------- state
VARIABLES
    table_present,  \* the collection's table exists in the store
    ns_ready,       \* the vector extension and the schema namespace exist
    table,          \* the committed rows of the table
    sess,           \* the rows as the writing session sees them (committed + staged)
    pc,             \* "idle", "loop" (inside insert / upsert), "done"
    op,             \* the write call in progress or last finished
    documents,      \* the documents the loop has taken from the list so far,
                    \* each with the embedding document.embed() left in it
    batch_size,     \* its batch_size argument
    pos,            \* index of the next document of the loop
    counter,        \* the loop's counter of rows staged since the last commit
    commits,        \* sess.commit() calls made by the call
    raised,         \* the exception the call ended with ("none": it returned)
    before,         \* the committed rows when the call started
    calls,          \* write calls started so far
    stored,         \* every content_hash a commit has ever made durable
    ret,            \* the last other operation and what it returned
    index,          \* self.index: the collection's index policy
    ann,            \* the index built in the store (NoIndex: none)
    opt,            \* the last optimize() call: what it counted and asked for
    silent,         \* times the provider has returned nothing to a write call
    conn,           \* the pooled connection: the parameters set on it
    callers,        \* the concurrent callers: each one's call and its session
    won             \* per identity, the values of the last committed write

vars == << table_present, ns_ready, table, sess, pc, op, documents,
           batch_size, pos, counter, commits, raised, before, calls, stored, ret,
           index, ann, opt, silent, conn, callers, won >>

storevars == << table_present, ns_ready, table, stored >>
indexvars == << index, ann, opt, silent, conn >>
concvars == << callers, won >>

NoRet == [op |-> "none"]

\* ------------------------------------------------------------ the table
\* now(): the start time of the current transaction.  The store's clock is
\* read at the granularity of calls: it ticks once per write call.
now == calls

\* document.embed(embedder=self.embedder) fills document.embedding in place
Embedded(document, outcome) ==
    [id |-> document.id, name |-> document.name,
     meta_data |-> document.meta_data, content |-> document.content,
     usage |-> document.usage,
     embedding |-> EmbeddingOf(document.content, outcome)]

\* .values(id=..., name=..., ...) of insert and upsert
Values(document) ==
    LET cleaned == cleaned_content(document.content)
        hash == content_hash(cleaned)
    IN  [id |-> Identity(document.id, hash),
         name |-> document.name,
         meta_data |-> document.meta_data,
         content |-> cleaned,
         embedding |-> document.embedding,
         usage |-> document.usage,
         content_hash |-> hash]

\* The row an INSERT of these values creates: created_at takes its server
\* default now(); updated_at has no default and stays NULL.
NewRow(v, t) ==
    [id |-> v.id, name |-> v.name, meta_data |-> v.meta_data,
     content |-> v.content, embedding |-> v.embedding, usage |-> v.usage,
     created_at |-> t, updated_at |-> None, content_hash |-> v.content_hash]

\* The column type Vector(self.dimensions) accepts NULL and vectors of that length
VectorAccepted(embedding) ==
    embedding = NoEmbedding \/ Len(embedding) = Dimensions

HasId(rows, id) == \E r \in rows : r.id = id

\* postgresql.insert(self.table).values(...): a plain INSERT
\*   (faulty variant: a duplicate identity overwrites the row)
insert_stmt_overwrites(rows, v, t) ==
    [err |-> "none", rows |-> {r \in rows : r.id # v.id} \cup {NewRow(v, t)}]
insert_stmt(rows, v, t) ==
    IF HasId(rows, v.id)
    THEN [err |-> "conflict", rows |-> rows]
    ELSE [err |-> "none", rows |-> rows \cup {NewRow(v, t)}]

\* The same INSERT with on_conflict_do_update(index_elements=["id"], set_=...)
\*   (faulty variant: set_ leaves usage out)
upsert_stmt_keeps_usage(rows, v, t) ==
    IF HasId(rows, v.id)
    THEN [err |-> "none",
          rows |-> { IF r.id = v.id
                     THEN [r EXCEPT !.name = v.name, !.meta_data = v.meta_data,
                                    !.content = v.content,
                                    !.embedding = v.embedding,
                                    !.content_hash = v.content_hash]
                     ELSE r : r \in rows }]
    ELSE [err |-> "none", rows |-> rows \cup {NewRow(v, t)}]
upsert_stmt(rows, v, t) ==
    IF HasId(rows, v.id)
    THEN [err |-> "none",
          rows |-> { IF r.id = v.id
                     THEN [r EXCEPT !.name = v.name, !.meta_data = v.meta_data,
                                    !.content = v.content,
                                    !.embedding = v.embedding,
                                    !.usage = v.usage,
                                    !.content_hash = v.content_hash]
                     ELSE r : r \in rows }]
    ELSE [err |-> "none", rows |-> rows \cup {NewRow(v, t)}]

\* sess.execute(stmt) of the write loop
execute_write(kind, rows, v, t) ==
    IF ~table_present THEN [err |-> "no_table", rows |-> rows]
    ELSE IF ~VectorAccepted(v.embedding) THEN [err |-> "rejected", rows |-> rows]
    ELSE IF kind = "insert" THEN insert_stmt(rows, v, t)
    ELSE upsert_stmt(rows, v, t)

\* `if counter >= batch_size:` after a staged row
\*   (faulty variant: `>` for `>=`)
BatchFullStrict(n, size) == n > size
BatchFull(n, size) == n >= size

\* Leaving `with self.Session() as sess:` on an exception closes the session,
\* which rolls back what was staged since the last commit
\*   (faulty variant: closing commits what was staged)
AfterCloseCommitting(committed, staged) == staged
AfterClose(committed, staged) == committed

Hashes(rows) == {r.content_hash : r \in rows}

\* ------------------------------------------------------------ index policy
DefaultLists == 100
DefaultProbes == 10
DefaultM == 16
DefaultEfSearch == 5
DefaultEfConstruction == 200

\* configuration: {"maintenance_work_mem": "2GB"}, as (key, value) pairs
DefaultConfiguration == { <<"maintenance_work_mem", "2GB">> }

Ivfflat(lists, dynamic_lists) ==
    [kind |-> "ivfflat", name |-> None, lists |-> lists, probes |-> DefaultProbes,
     dynamic_lists |-> dynamic_lists, configuration |-> DefaultConfiguration]

HNSW ==
    [kind |-> "hnsw", name |-> None, m |-> DefaultM, ef_search |-> DefaultEfSearch,
     ef_construction |-> DefaultEfConstruction,
     configuration |-> DefaultConfiguration]

NoIndex == [kind |-> "none"]
NoOpt == [op |-> "none"]

\* self.distance: the constructor's default
distance == "cosine"

\* ------------------------------------------- the connection's parameters
\* The store keeps a connection's run-time parameters at two levels: the
\* values set for the session, and the values set for the open transaction.
\* The pool hands the same connection to one operation after the other.
NoSettings == [session |-> {}, local |-> {}]

\* sess.execute(text("SET LOCAL <key> = <value>"))
SetLocal(c, key, value) ==
    [c EXCEPT !.local = {p \in @ : p[1] # key} \cup {<<key, value>>}]

\* sess.execute(text("SET <key> = <value>"))
SetSession(c, key, value) ==
    [c EXCEPT !.session = {p \in @ : p[1] # key} \cup {<<key, value>>}]

RECURSIVE SetAll(_, _)
SetAll(c, pairs) ==
    IF pairs = {} THEN c
    ELSE LET p == CHOOSE q \in pairs : TRUE
         IN  SetAll(SetSession(c, p[1], p[2]), pairs \ {p})

\* Leaving `with sess.begin():` normally commits: what SET LOCAL set ends
\* with the transaction, what SET set stays on the connection
Committed(c) == [c EXCEPT !.local = {}]

\* Leaving it on an exception rolls back: the connection is as it was when
\* the transaction began
RolledBack(c0, c) == c0

\* ------------------------------------------------------ concurrent callers
Callers == {1, 2}

NoDocument == [id |-> NoneId]

\* A caller that has not called yet
IdleCaller ==
    [pc |-> "idle", op |-> "none", batch_size |-> 1, pos |-> 1, counter |-> 0,
     raised |-> "none", staged |-> {}, stmt |-> NoDocument, wrote |-> {}]

\* ------------------------------------------------------------------- Init
Init ==
    /\ table_present \in BOOLEAN
    /\ ns_ready = table_present
    /\ table = {}
    /\ sess = {}
    /\ pc = "idle"
    /\ op = "none"
    /\ documents = <<>>
    /\ batch_size = 1
    /\ pos = 1
    /\ counter = 0
    /\ commits = 0
    /\ raised = "none"
    /\ before = {}
    /\ calls = 0
    /\ stored = {}
    /\ ret = NoRet
    /\ index = HNSW
    /\ ann = NoIndex
    /\ opt = NoOpt
    /\ silent = 0
    /\ conn = NoSettings
    /\ callers = [c \in Callers |-> IdleCaller]
    /\ won = {}

\* The caller makes one call at a time: an operation is entered when no call
\* is running and the last one's frame (its arguments and locals) is gone.
NoWriteRunning == pc = "idle"

FrameGone ==
    /\ pc' = "idle"
    /\ op' = "none"
    /\ documents' = <<>>
    /\ batch_size' = 1
    /\ pos' = 1
    /\ counter' = 0
    /\ commits' = 0
    /\ raised' = "none"
    /\ before' = {}
    /\ sess' = {}
    /\ UNCHANGED << calls, concvars >>

\* --------------------------------------------------- insert and upsert
\* insert(documents, batch_size) / upsert(documents, batch_size) is entered:
\* the session is opened and counter = 0.  The loop reads the list front to
\* back and never looks ahead, so the model draws each document, and the end
\* of the list, when the loop comes to it.
write_call(kind, size) ==
    /\ NoWriteRunning
    /\ calls < MaxCalls
    /\ pc' = "loop"
    /\ op' = kind
    /\ documents' = <<>>
    /\ batch_size' = size
    /\ pos' = 1
    /\ counter' = 0
    /\ commits' = 0
    /\ raised' = "none"
    /\ before' = table
    /\ calls' = calls + 1
    /\ sess' = table
    /\ ret' = NoRet
    /\ UNCHANGED << table_present, ns_ready, table, stored, indexvars,
                    concvars >>

insert ==
    \E size \in 1..MaxBatch : write_call("insert", size)

upsert ==
    \E size \in 1..MaxBatch : write_call("upsert", size)

\* The call ends with an exception: the session is closed
Raise(err) ==
    /\ pc' = "done"
    /\ raised' = err
    /\ sess' = AfterClose(table, sess)
    /\ table' = AfterClose(table, sess)
    /\ stored' = stored \cup Hashes(table')
    /\ UNCHANGED << pos, counter, commits >>

\* One iteration of `for document in documents:`, the list having a
\* document at index pos
write_loop ==
    /\ pc = "loop"
    /\ pos <= MaxDocs
    /\ \E document \in Documents, outcome \in EmbedOutcomes :
         LET embedded == Embedded(document, outcome)
             res == execute_write(op, sess, Values(embedded), now)
         IN  /\ outcome = "none" => silent < MaxSilent
             /\ silent' = IF outcome = "none" THEN silent + 1 ELSE silent
             /\ documents' = Append(documents, embedded)
             /\ IF outcome = "fail" THEN Raise("embedding")
                ELSE IF res.err # "none" THEN Raise(res.err)
                ELSE /\ pos' = pos + 1
                     /\ sess' = res.rows
                     /\ IF BatchFull(counter + 1, batch_size)
                        THEN /\ table' = res.rows
                             /\ stored' = stored \cup Hashes(res.rows)
                             /\ counter' = 0
                             /\ commits' = commits + 1
                        ELSE /\ counter' = counter + 1
                             /\ UNCHANGED << table, stored, commits >>
                     /\ UNCHANGED << pc, raised >>
    /\ UNCHANGED << table_present, ns_ready, op, batch_size, before,
                    calls, ret, index, ann, opt, conn, concvars >>

\* The list has no document at index pos: the loop ends, then
\* `if counter > 0: sess.commit()`, and the call returns
write_return ==
    /\ pc = "loop"
    /\ pc' = "done"
    /\ IF counter > 0
       THEN /\ table' = sess
            /\ stored' = stored \cup Hashes(sess)
            /\ commits' = commits + 1
            /\ counter' = 0
       ELSE UNCHANGED << table, stored, commits, counter >>
    /\ UNCHANGED << table_present, ns_ready, sess, op, documents,
                    batch_size, pos, raised, before, calls, ret, indexvars,
                    concvars >>

\* The finished insert / upsert call hands control back to its caller
write_done ==
    /\ pc = "done"
    /\ FrameGone
    /\ UNCHANGED << storevars, ret, indexvars >>

\* ------------------------------------------------ existence and count
\* A statement on a table that does not exist fails
\* select ... where content_hash == md5(cleaned_content): is there a row
\*   (faulty variant: the content is hashed without the replacement)
doc_exists_result_raw(rows, document) ==
    \E r \in rows : r.content_hash = content_hash(document.content)
doc_exists_result(rows, document) ==
    \E r \in rows :
        r.content_hash = content_hash(cleaned_content(document.content))

doc_exists ==
    /\ NoWriteRunning
    /\ \E document \in Documents :
         ret' = IF table_present
                THEN [op |-> "doc_exists", arg |-> document.content,
                      raised |-> FALSE,
                      value |-> doc_exists_result(table, document)]
                ELSE [op |-> "doc_exists", arg |-> document.content,
                      raised |-> TRUE, value |-> FALSE]
    /\ FrameGone
    /\ UNCHANGED << table_present, ns_ready, table, stored, indexvars >>

\* The names and ids callers ask for
Names == {"n1", "n2"}
Ids == { <<"x">>, <<"md5", "a">> }

\* select name from table where name == <name>: is there a row
name_exists ==
    /\ NoWriteRunning
    /\ \E name \in Names :
         ret' = IF table_present
                THEN [op |-> "name_exists", arg |-> name, raised |-> FALSE,
                      value |-> \E r \in table : r.name = name]
                ELSE [op |-> "name_exists", arg |-> name, raised |-> TRUE,
                      value |-> FALSE]
    /\ FrameGone
    /\ UNCHANGED << storevars, indexvars >>

\* select id from table where id == <id>: is there a row
id_exists ==
    /\ NoWriteRunning
    /\ \E id \in Ids :
         ret' = IF table_present
                THEN [op |-> "id_exists", arg |-> id, raised |-> FALSE,
                      value |-> \E r \in table : r.id = id]
                ELSE [op |-> "id_exists", arg |-> id, raised |-> TRUE,
                      value |-> FALSE]
    /\ FrameGone
    /\ UNCHANGED << storevars, indexvars >>

\* select count(name) from table: count(column) counts the rows whose column
\* is not NULL
get_count_result(rows) == Cardinality({r \in rows : r.name # None})

get_count ==
    /\ NoWriteRunning
    /\ ret' = IF table_present
              THEN [op |-> "get_count", raised |-> FALSE,
                    value |-> get_count_result(table)]
              ELSE [op |-> "get_count", raised |-> TRUE, value |-> 0]
    /\ FrameGone
    /\ UNCHANGED << table_present, ns_ready, table, stored, indexvars >>

\* clear(): delete from table
clear ==
    /\ NoWriteRunning
    /\ IF table_present
       THEN /\ table' = {}
            /\ ret' = [op |-> "clear", raised |-> FALSE, value |-> TRUE]
       ELSE /\ table' = table
            /\ ret' = [op |-> "clear", raised |-> TRUE, value |-> FALSE]
    /\ FrameGone
    /\ UNCHANGED << table_present, ns_ready, stored, indexvars >>

\* ------------------------------------------------------- provisioning
\* table_exists(): the inspection's answer, and False when the inspection fails
table_exists(check_fails) == IF check_fails THEN FALSE ELSE table_present

\* self.table.create(self.db_engine) is a plain CREATE TABLE: it fails on a
\* table that is already there and leaves that table as it is.
\*   (faulty variant: the table is made anew whether or not it is there)
table_create_anew(present, rows) == [raised |-> FALSE, rows |-> {}]
table_create(present, rows) ==
    IF present THEN [raised |-> TRUE, rows |-> rows]
    ELSE [raised |-> FALSE, rows |-> {}]

\* create(): what it leaves in the store and whether it raises.
\*   ddl_rejected  the store rejects `create extension` / `create schema`
\*   (faulty variant: the table itself is never created)
create_result_no_table(check_fails, ddl_rejected) ==
    IF table_exists(check_fails)
    THEN [raised |-> FALSE, ns |-> ns_ready, present |-> table_present,
          rows |-> table]
    ELSE IF ddl_rejected
    THEN [raised |-> TRUE, ns |-> ns_ready, present |-> table_present,
          rows |-> table]
    ELSE [raised |-> table_present, ns |-> TRUE, present |-> table_present,
          rows |-> table]
create_result(check_fails, ddl_rejected) ==
    IF table_exists(check_fails)
    THEN [raised |-> FALSE, ns |-> ns_ready, present |-> table_present,
          rows |-> table]
    ELSE IF ddl_rejected
    THEN [raised |-> TRUE, ns |-> ns_ready, present |-> table_present,
          rows |-> table]
    ELSE LET t == table_create(table_present, table)
         IN  [raised |-> t.raised, ns |-> TRUE, present |-> TRUE,
              rows |-> t.rows]

create ==
    /\ NoWriteRunning
    /\ \E check_fails \in BOOLEAN, ddl_rejected \in BOOLEAN :
         LET c == create_result(check_fails, ddl_rejected)
         IN  /\ ns_ready' = c.ns
             /\ table_present' = c.present
             /\ table' = c.rows
             /\ ret' = [op |-> "create", raised |-> c.raised,
                        had_table |-> table_present]
    /\ FrameGone
    /\ UNCHANGED << stored, indexvars >>

\* exists(): table_exists()
exists ==
    /\ NoWriteRunning
    /\ \E check_fails \in BOOLEAN :
         ret' = [op |-> "exists", raised |-> FALSE,
                 value |-> table_exists(check_fails)]
    /\ FrameGone
    /\ UNCHANGED << storevars, indexvars >>

\* delete(): drop the table when table_exists() says it is there
delete ==
    /\ NoWriteRunning
    /\ \E check_fails \in BOOLEAN :
         IF table_exists(check_fails)
         THEN /\ table_present' = FALSE
              /\ table' = {}
              /\ ann' = NoIndex
         ELSE UNCHANGED << table_present, table, ann >>
    /\ ret' = [op |-> "delete", raised |-> FALSE, had_table |-> table_present]
    /\ FrameGone
    /\ UNCHANGED << ns_ready, stored, index, opt, silent, conn >>

\* ----------------------------------------------------------------- search
Columns == {"id", "name", "meta_data", "content", "embedding", "usage",
            "created_at", "updated_at", "content_hash"}

\* Names that are attributes of the column collection self.table.c without
\* being columns (the collection's methods, such as keys())
CollectionAttributes == {"keys"}

\* The filters callers pass: none, one on a column, one on no column, one on
\* no column next to one on a column, one on a name the collection has as a
\* method
FilterSets == { {}, {<<"name", "n1">>}, {<<"colour", "n1">>},
                {<<"name", "n1">>, <<"colour", "n1">>}, {<<"keys", "n1">>} }

Queries == { <<"a">> }
Limits == {1, 5}

\* hasattr(self.table.c, key)
hasattr_c(key) == key \in Columns \/ key \in CollectionAttributes

\* `if hasattr(self.table.c, key): stmt = stmt.where(getattr(...) == value)`:
\* a column compared with the value is the predicate column = value; any
\* other attribute compared with the value is Python's False, and where(False)
\* selects no row
Matches(r, filters) ==
    \A f \in filters :
        hasattr_c(f[1]) => IF f[1] \in Columns THEN r[f[1]] = f[2] ELSE FALSE

Dot(u, v) == u[1] * v[1] + u[2] * v[2]

\* The order_by expression of the configured distance, as "r1 sorts strictly
\* before r2": l2 and max_inner_product both order by the negative inner
\* product, cosine by the cosine distance; NULL embeddings sort last.
Closer(e1, e2, q) ==
    IF distance = "cosine"
    THEN Dot(e1, q) * Dot(e1, q) * Dot(e2, e2) > Dot(e2, q) * Dot(e2, q) * Dot(e1, e1)
    ELSE Dot(e1, q) > Dot(e2, q)

SortsBefore(r1, r2, q) ==
    /\ r1.embedding # NoEmbedding
    /\ r2.embedding = NoEmbedding \/ Closer(r1.embedding, r2.embedding, q)

\* Every order the store may return the rows in
Ranked(rows, q) ==
    { s \in [1..Cardinality(rows) -> rows] :
        /\ \A a, b \in DOMAIN s : a # b => s[a] # s[b]
        /\ \A a, b \in DOMAIN s : a < b => ~SortsBefore(s[b], s[a], q) }

Min(a, b) == IF a < b THEN a ELSE b

\* Document(name=..., meta_data=..., content=..., embedding=..., usage=...)
ResultDocument(r) ==
    [name |-> r.name, meta_data |-> r.meta_data, content |-> r.content,
     embedding |-> r.embedding, usage |-> r.usage]

\* What sess.execute(stmt).fetchall() may give, made into Documents: the
\* first `limit` of the matching rows in an order of the distance
search_values(rows, query, limit, filters) ==
    { [k \in 1..Min(limit, Len(s)) |-> ResultDocument(s[k])] :
        s \in Ranked({r \in rows : Matches(r, filters)}, Embed(query)) }

\* `SET LOCAL ivfflat.probes = ...` / `SET LOCAL hnsw.ef_search = ...`
search_tuned(c) ==
    IF index.kind = "ivfflat" THEN SetLocal(c, "ivfflat.probes", index.probes)
    ELSE IF index.kind = "hnsw"
    THEN SetLocal(c, "hnsw.ef_search", index.ef_search)
    ELSE c

\* search(query, limit, filters).
\*   provider_ok  the embedder returns a vector for the query
\*   exec_fails   the statement fails although the table is there
\* A statement on a missing table always fails.
search ==
    /\ NoWriteRunning
    /\ \E query \in Queries, limit \in Limits, filters \in FilterSets,
          provider_ok \in BOOLEAN :
         LET call == [op |-> "search", had_table |-> table_present,
                      embedded |-> provider_ok, query |-> query,
                      limit |-> limit, filters |-> filters]
         IN  IF ~provider_ok
             THEN /\ ret' = call @@ [raised |-> FALSE, failed |-> FALSE,
                                     recovery |-> "none", value |-> <<>>]
                  /\ UNCHANGED << table_present, ns_ready, table, conn >>
             ELSE \E exec_fails \in BOOLEAN :
                  IF ~table_present \/ exec_fails
                  THEN \E check_fails \in BOOLEAN, ddl_rejected \in BOOLEAN :
                       LET c == create_result(check_fails, ddl_rejected)
                       IN  /\ ret' = call @@
                                     [raised |-> c.raised, failed |-> TRUE,
                                      recovery |-> IF ddl_rejected
                                                   THEN "rejected"
                                                   ELSE "accepted",
                                      value |-> <<>>]
                           /\ ns_ready' = c.ns
                           /\ table_present' = c.present
                           /\ table' = c.rows
                           /\ conn' = RolledBack(conn, search_tuned(conn))
                  ELSE /\ \E value \in search_values(table, query, limit,
                                                    filters) :
                             ret' = call @@
                                    [raised |-> FALSE, failed |-> FALSE,
                                     recovery |-> "none", value |-> value]
                       /\ conn' = Committed(search_tuned(conn))
                       /\ UNCHANGED << table_present, ns_ready, table >>
    /\ FrameGone
    /\ UNCHANGED << stored, index, ann, opt, silent >>

\* --------------------------------------------------------------- optimize
ThresholdRecords == 1000000
RecordsPerList == 1000

\* int(sqrt(n)) for n >= 0, by Newton's iteration on integers
RECURSIVE SqrtDown(_, _, _)
SqrtDown(n, x, y) == IF y < x THEN SqrtDown(n, y, (y + n \div y) \div 2) ELSE x

IntSqrt(n) == IF n = 0 THEN 0 ELSE SqrtDown(n, n, (n + 1) \div 2)

\* num_lists of optimize() for a list index, total_records being get_count()
num_lists(ix, total_records) ==
    IF ~ix.dynamic_lists THEN ix.lists
    ELSE IF total_records < ThresholdRecords
    THEN total_records \div RecordsPerList
    ELSE IF total_records > ThresholdRecords
    THEN IntSqrt(total_records)
    ELSE ix.lists

\* `if self.index.name is None: self.index.name = ...` (the default name
\* "<collection>_<kind>_index", one per kind, is written as the kind)
Named(ix) == IF ix.name = None THEN [ix EXCEPT !.name = ix.kind] ELSE ix

\* `CREATE INDEX IF NOT EXISTS <name> ...`: the index is built only when no
\* index of that name is there
\*   (faulty variant: the index is built anew on every call)
create_index_replacing(existing, built) == built
create_index_if_not_exists(existing, built) ==
    IF existing # NoIndex /\ existing.name = built.name THEN existing
    ELSE built

\* optimize() of a collection with a list index on a table for which
\* get_count() returns total_records.  The store refuses a list count below
\* 1, an exception that leaves `with sess.begin():` and rolls back.
optimize_counted(total_records) ==
    /\ NoWriteRunning
    /\ index.kind = "ivfflat"
    /\ table_present
    /\ LET lists == num_lists(index, total_records)
           named == Named(index)
           tuned == SetSession(SetAll(conn, named.configuration),
                               "ivfflat.probes", named.probes)
           built == [kind |-> "ivfflat", name |-> named.name, lists |-> lists]
       IN  /\ index' = named
           /\ opt' = [op |-> "optimize", total_records |-> total_records,
                      num_lists |-> lists, raised |-> lists < 1]
           /\ IF lists < 1
              THEN /\ ann' = ann
                   /\ conn' = RolledBack(conn, tuned)
              ELSE /\ ann' = create_index_if_not_exists(ann, built)
                   /\ conn' = Committed(tuned)
    /\ ret' = NoRet
    /\ FrameGone
    /\ UNCHANGED << table_present, ns_ready, table, stored, silent >>

\* optimize() of a collection with a graph index
optimize_hnsw ==
    /\ NoWriteRunning
    /\ index.kind = "hnsw"
    /\ table_present
    /\ LET named == Named(index)
           tuned == SetAll(conn, named.configuration)
           built == [kind |-> "hnsw", name |-> named.name, m |-> named.m,
                     ef_construction |-> named.ef_construction]
       IN  /\ index' = named
           /\ opt' = [op |-> "optimize_hnsw", raised |-> FALSE]
           /\ ann' = create_index_if_not_exists(ann, built)
           /\ conn' = Committed(tuned)
    /\ ret' = NoRet
    /\ FrameGone
    /\ UNCHANGED << table_present, ns_ready, table, stored, silent >>

Next ==
    \/ insert
    \/ upsert
    \/ write_loop
    \/ write_return
    \/ write_done
    \/ doc_exists
    \/ name_exists
    \/ id_exists
    \/ exists
    \/ get_count
    \/ clear
    \/ create
    \/ delete
    \/ search

Spec == Init /\ [][Next]_vars

\* ------------------------------------------ the list sizing on its own
SizingBand == 2     \* row counts taken on each side of a point of interest

RowCounts ==
    UNION { { n \in (c - SizingBand)..(c + SizingBand) : n >= 0 } :
            c \in {0, RecordsPerList, 500000, ThresholdRecords, 4000000} }

InitIndex ==
    /\ table_present = TRUE
    /\ ns_ready = TRUE
    /\ table = {}
    /\ sess = {}
    /\ pc = "idle"
    /\ op = "none"
    /\ documents = <<>>
    /\ batch_size = 1
    /\ pos = 1
    /\ counter = 0
    /\ commits = 0
    /\ raised = "none"
    /\ before = {}
    /\ calls = 0
    /\ stored = {}
    /\ ret = NoRet
    /\ index \in { Ivfflat(lists, dyn) : lists \in {1, DefaultLists},
                                         dyn \in BOOLEAN } \cup {HNSW}
    /\ ann = NoIndex
    /\ opt = NoOpt
    /\ silent = 0
    /\ conn = NoSettings
    /\ callers = [c \in Callers |-> IdleCaller]
    /\ won = {}

optimize ==
    \/ \E total_records \in RowCounts : optimize_counted(total_records)
    \/ optimize_hnsw

NextIndex ==
    \/ optimize
    \/ search

SpecIndex == InitIndex /\ [][NextIndex]_vars

\* ------------------------------------------------- concurrent callers
\* Two callers use the collection at the same time, each from its own
\* session.  The store is the one the code is written for: a statement sees
\* what is committed and what its own transaction wrote; a row written in a
\* transaction is locked for that transaction until it commits or rolls back,
\* and a statement that writes a row another transaction has locked waits for
\* it; two transactions waiting for each other are a deadlock, which the store
\* ends by failing the statement of one of them.  The provider answers every
\* call and the store's inspection does not fail.
MaxOwn == 2         \* longest document list of a concurrent insert / upsert

\* What belongs to the one-caller-at-a-time operations
seqvars == << sess, pc, op, documents, batch_size, pos, counter, commits,
              raised, before, calls, stored, ret, indexvars >>

Other(c) == CHOOSE o \in Callers : o # c

IdsIn(rows) == {r.id : r \in rows}

\* The rows a statement of caller c sees
View(c) ==
    {r \in table : r.id \notin IdsIn(callers[c].staged)} \cup callers[c].staged

\* Caller a's statement waits for a row that caller b's transaction has locked
Waits(a, b) ==
    /\ callers[a].pc = "exec"
    /\ callers[a].stmt.id \in IdsIn(callers[b].staged)

\* sess.commit(): the rows the transaction wrote become the committed ones
\* and its locks are released; won remembers, per identity, the values of the
\* statement that wrote it last and the callers that have committed it
CommitRows(rows, staged) ==
    {r \in rows : r.id \notin IdsIn(staged)} \cup staged

CommitWon(c, wrote) ==
    {w \in won : w.v.id \notin IdsIn(wrote)} \cup
    { [v |-> v, caller |-> c,
       writers |-> {c} \cup UNION {w.writers : w \in {x \in won : x.v.id = v.id}}] :
      v \in wrote }

\* insert(documents, batch_size) / upsert(documents, batch_size) is entered
c_write_call(c, kind) ==
    /\ callers[c].pc = "idle"
    /\ \E size \in 1..MaxBatch :
         callers' = [callers EXCEPT ![c] =
                        [@ EXCEPT !.pc = "loop", !.op = kind,
                                  !.batch_size = size]]
    /\ UNCHANGED << table_present, ns_ready, table, won, seqvars >>

c_insert == \E c \in Callers : c_write_call(c, "insert")

c_upsert == \E c \in Callers : c_write_call(c, "upsert")

\* One iteration of the loop up to sess.execute(stmt): the document is
\* embedded and the statement is built and sent
c_write_stmt ==
    \E c \in Callers :
        /\ callers[c].pc = "loop"
        /\ callers[c].pos <= MaxOwn
        /\ \E document \in Documents :
             callers' = [callers EXCEPT ![c] =
                            [@ EXCEPT !.pc = "exec",
                                      !.stmt = Values(Embedded(document, "ok"))]]
        /\ UNCHANGED << table_present, ns_ready, table, won, seqvars >>

\* The statement fails: the exception leaves the call, the session is closed
\* and its transaction rolled back
c_raise(c, err) ==
    callers' = [callers EXCEPT ![c] =
                   [@ EXCEPT !.pc = "done", !.raised = err, !.staged = {},
                             !.wrote = {}, !.stmt = NoDocument]]

\* The store runs the statement (no other transaction holds its row), then
\* counter += 1 and the commit of a full batch.  The transaction's now() is
\* written as the caller.
c_write_exec ==
    \E c \in Callers :
        LET me == callers[c]
            res == execute_write(me.op, View(c), me.stmt, c)
            staged == {r \in res.rows : r.id \in IdsIn(me.staged) \cup {me.stmt.id}}
            wrote == {v \in me.wrote : v.id # me.stmt.id} \cup {me.stmt}
        IN  /\ me.pc = "exec"
            /\ ~Waits(c, Other(c))
            /\ IF res.err # "none"
               THEN /\ c_raise(c, res.err)
                    /\ UNCHANGED << table, won >>
               ELSE IF BatchFull(me.counter + 1, me.batch_size)
               THEN /\ table' = CommitRows(table, staged)
                    /\ won' = CommitWon(c, wrote)
                    /\ callers' = [callers EXCEPT ![c] =
                                      [@ EXCEPT !.pc = "loop", !.pos = @ + 1,
                                                !.counter = 0, !.staged = {},
                                                !.wrote = {},
                                                !.stmt = NoDocument]]
               ELSE /\ callers' = [callers EXCEPT ![c] =
                                      [@ EXCEPT !.pc = "loop", !.pos = @ + 1,
                                                !.counter = @ + 1,
                                                !.staged = staged,
                                                !.wrote = wrote,
                                                !.stmt = NoDocument]]
                    /\ UNCHANGED << table, won >>
            /\ UNCHANGED << table_present, ns_ready, seqvars >>

\* The store finds the two transactions waiting for each other and fails the
\* statement of one
c_deadlock ==
    \E c \in Callers :
        /\ Waits(c, Other(c))
        /\ Waits(Other(c), c)
        /\ c_raise(c, "deadlock")
        /\ UNCHANGED << table_present, ns_ready, table, won, seqvars >>

\* The loop ends, `if counter > 0: sess.commit()`, and the call returns
c_write_return ==
    \E c \in Callers :
        /\ callers[c].pc = "loop"
        /\ IF callers[c].counter > 0
           THEN /\ table' = CommitRows(table, callers[c].staged)
                /\ won' = CommitWon(c, callers[c].wrote)
           ELSE UNCHANGED << table, won >>
        /\ callers' = [callers EXCEPT ![c] =
                          [@ EXCEPT !.pc = "done", !.counter = 0,
                                    !.staged = {}, !.wrote = {}]]
        /\ UNCHANGED << table_present, ns_ready, seqvars >>

\* search(query) is entered, the query embedded and the statement built
c_search ==
    \E c \in Callers :
        /\ callers[c].pc = "idle"
        /\ callers' = [callers EXCEPT ![c] =
                          [@ EXCEPT !.pc = "query", !.op = "search"]]
        /\ UNCHANGED << table_present, ns_ready, table, won, seqvars >>

\* sess.execute(stmt).fetchall(): on a missing table the statement fails and
\* the handler calls self.create(); otherwise search returns its result
c_search_query ==
    \E c \in Callers :
        /\ callers[c].pc = "query"
        /\ callers' = [callers EXCEPT ![c] =
                          [@ EXCEPT !.pc = IF table_present THEN "done"
                                           ELSE "check"]]
        /\ UNCHANGED << table_present, ns_ready, table, won, seqvars >>

\* create() is entered
c_create ==
    \E c \in Callers :
        /\ callers[c].pc = "idle"
        /\ callers' = [callers EXCEPT ![c] =
                          [@ EXCEPT !.pc = "check", !.op = "create"]]
        /\ UNCHANGED << table_present, ns_ready, table, won, seqvars >>

\* `if not self.table_exists():`
c_create_check ==
    \E c \in Callers :
        /\ callers[c].pc = "check"
        /\ callers' = [callers EXCEPT ![c] =
                          [@ EXCEPT !.pc = IF table_exists(FALSE) THEN "done"
                                           ELSE "namespace"]]
        /\ UNCHANGED << table_present, ns_ready, table, won, seqvars >>

\* create extension if not exists / create schema if not exists, committed
c_create_namespace ==
    \E c \in Callers :
        /\ callers[c].pc = "namespace"
        /\ ns_ready' = TRUE
        /\ callers' = [callers EXCEPT ![c] = [@ EXCEPT !.pc = "table"]]
        /\ UNCHANGED << table_present, table, won, seqvars >>

\* self.table.create(self.db_engine)
c_create_table ==
    \E c \in Callers :
        LET t == table_create(table_present, table)
        IN  /\ callers[c].pc = "table"
            /\ table_present' = TRUE
            /\ table' = t.rows
            /\ callers' = [callers EXCEPT ![c] =
                              [@ EXCEPT !.pc = "done",
                                        !.raised = IF t.raised THEN "exists"
                                                   ELSE "none"]]
            /\ UNCHANGED << ns_ready, won, seqvars >>

InitConcurrent ==
    /\ table_present \in BOOLEAN
    /\ ns_ready = table_present
    /\ table = {}
    /\ sess = {}
    /\ pc = "idle"
    /\ op = "none"
    /\ documents = <<>>
    /\ batch_size = 1
    /\ pos = 1
    /\ counter = 0
    /\ commits = 0
    /\ raised = "none"
    /\ before = {}
    /\ calls = 0
    /\ stored = {}
    /\ ret = NoRet
    /\ index = HNSW
    /\ ann = NoIndex
    /\ opt = NoOpt
    /\ silent = 0
    /\ conn = NoSettings
    /\ callers = [c \in Callers |-> IdleCaller]
    /\ won = {}

NextConcurrent ==
    \/ c_insert
    \/ c_upsert
    \/ c_write_stmt
    \/ c_write_exec
    \/ c_deadlock
    \/ c_write_return
    \/ c_search
    \/ c_search_query
    \/ c_create
    \/ c_create_check
    \/ c_create_namespace
    \/ c_create_table

SpecConcurrent == InitConcurrent /\ [][NextConcurrent]_vars

\* ===================================================================
\* Properties
\* ===================================================================

\* The identity a document is to be stored under: its id when it has a
\* non-empty one, and the digest of its normalised content otherwise
ClaimedIdentity(d) ==
    IF d.id # NoneId /\ d.id # EmptyId THEN d.id
    ELSE content_hash(cleaned_content(d.content))

\* The documents of the running or finished call that were staged
Staged == 1..(pos - 1)

IdsOf(rows) == {r.id : r \in rows}

\* The table after the first n documents of docs were written, in order, over
\* rows0 at time t: a row no document names is as it was; a row a document
\* names holds the six written columns of the last such document, and the
\* created_at of the write that created the row.
Expected(rows0, docs, n, t) ==
    LET touched == {ClaimedIdentity(docs[j]) : j \in 1..n}
        last(id) == CHOOSE j \in 1..n :
                        /\ ClaimedIdentity(docs[j]) = id
                        /\ \A k \in (j + 1)..n : ClaimedIdentity(docs[k]) # id
        written(id) ==
            LET d == docs[last(id)]
            IN  [id |-> id, name |-> d.name, meta_data |-> d.meta_data,
                 content |-> cleaned_content(d.content),
                 embedding |-> d.embedding, usage |-> d.usage,
                 created_at |-> IF id \in IdsOf(rows0)
                                THEN (CHOOSE r \in rows0 : r.id = id).created_at
                                ELSE t,
                 updated_at |-> None,
                 content_hash |-> content_hash(cleaned_content(d.content))]
    IN  {r \in rows0 : r.id \notin touched} \cup {written(id) : id \in touched}

CeilDiv(n, d) == (n + d - 1) \div d

\* C1: a call of insert or upsert with N documents and batch size B >= 1 in
\* which no write fails commits after every B-th staged row and once more for
\* a non-empty remainder: ceil(N / B) commits when it returns (on return
\* without failure, documents is the whole list and N its length).
C1_CommitsPerBatch ==
    /\ (pc = "loop" /\ batch_size >= 1) =>
          /\ commits = (pos - 1) \div batch_size
          /\ counter = (pos - 1) % batch_size
    /\ (pc = "done" /\ raised = "none" /\ batch_size >= 1) =>
          commits = CeilDiv(Len(documents), batch_size)

C1_Witness ==
    /\ pc = "done" /\ raised = "none"
    /\ Len(documents) = 3 /\ batch_size = 2 /\ commits = 2

\* C2: a call that fails on a document after k full batches were committed
\* leaves exactly the rows of its first k * B documents durable: what was
\* staged in the unfinished batch is gone and no later document is written.
C2_FailureKeepsFullBatches ==
    (pc = "done" /\ raised # "none") =>
        /\ commits = (Len(documents) - 1) \div batch_size
        /\ table = Expected(before, documents, commits * batch_size, calls)
        /\ sess = table

C2_Witness ==
    /\ pc = "done" /\ raised # "none"
    /\ commits >= 1
    /\ Len(documents) > commits * batch_size + 1
    /\ table # before

\* C3 as stated: once an upsert has committed, the row of every identity it
\* wrote holds in every non-key column what the new write put there, and
\* nothing of an earlier write: it is the row a first write of the last
\* document of that identity would have made.
C3_NoColumnOfEarlierWrite ==
    (pc = "done" /\ op = "upsert" /\ raised = "none") =>
        \A j \in 1..Len(documents) :
            \A r \in table :
                r.id = ClaimedIdentity(documents[j]) =>
                    r \in Expected({}, documents, Len(documents), calls)

\* C3 amended: the upsert replaces name, meta_data, content, embedding, usage
\* and content_hash by the values of the last document of that identity;
\* created_at stays as the write that created the row set it (updated_at is
\* not set by either); and exactly one row has the identity.
C3_UpsertReplacesWrittenColumns ==
    (pc = "done" /\ op = "upsert" /\ raised = "none") =>
        /\ table = Expected(before, documents, Len(documents), calls)
        /\ \A j \in 1..Len(documents) :
              Cardinality({r \in table :
                              r.id = ClaimedIdentity(documents[j])}) = 1

C3_Witness ==
    /\ pc = "done" /\ op = "upsert" /\ raised = "none"
    /\ \E j \in 1..Len(documents) : \E r0 \in before : \E r \in table :
          /\ r0.id = ClaimedIdentity(documents[j])
          /\ r.id = r0.id
          /\ r.content # r0.content /\ r.name # r0.name
          /\ r.meta_data # r0.meta_data /\ r.usage # r0.usage
          /\ r.created_at = r0.created_at

\* C4: an insert never stages a document whose identity is already stored or
\* was staged earlier in the call (that write fails and the call raises), and
\* a row that was there when the call started keeps every column.
C4_InsertConflictPropagates ==
    (op = "insert" /\ pc \in {"loop", "done"}) =>
        /\ \A j \in Staged :
              /\ ClaimedIdentity(documents[j]) \notin IdsOf(before)
              /\ \A k \in 1..(j - 1) :
                    ClaimedIdentity(documents[k]) # ClaimedIdentity(documents[j])
        /\ before \subseteq table
        /\ before \subseteq sess
        /\ (pc = "done" /\ table_present
            /\ Len(documents) > 0
            /\ raised \notin {"embedding", "rejected"}
            /\ \/ ClaimedIdentity(documents[Len(documents)]) \in IdsOf(before)
               \/ \E k \in 1..(Len(documents) - 1) :
                     ClaimedIdentity(documents[k]) =
                        ClaimedIdentity(documents[Len(documents)]))
           => (raised = "conflict" /\ pos = Len(documents))

C4_Witness ==
    /\ pc = "done" /\ op = "insert" /\ raised = "conflict"
    /\ \E r \in before :
          /\ r.id = ClaimedIdentity(documents[Len(documents)])
          /\ r.content # cleaned_content(documents[Len(documents)].content)
          /\ r \in table

C6_ExistsIffEverStored ==
    (ret.op = "doc_exists" /\ ~ret.raised) =>
        (ret.value <=> content_hash(cleaned_content(ret.arg)) \in stored)

\* C6 amended: existsByContent(doc), when it returns, is true exactly when a
\* row now in the table has the digest of doc's normalised content.
C6_ExistsIffRowPresent ==
    (ret.op = "doc_exists" /\ ~ret.raised) =>
        (ret.value <=>
            \E r \in table : r.content_hash = <<"md5">> \o
                [k \in 1..Len(ret.arg) |->
                    IF ret.arg[k] = NUL THEN REPL ELSE ret.arg[k]])

C6_Witness ==
    /\ ret.op = "doc_exists" /\ ~ret.raised /\ ret.value
    /\ \E k \in 1..Len(ret.arg) : ret.arg[k] = NUL

\* C7: count() returns the number of rows committed in the table, rows of
\* documents without a name included.
C7_CountIsRowCount ==
    (ret.op = "get_count" /\ ~ret.raised) => ret.value = Cardinality(table)

\* C8: with dynamic sizing the list count of optimize() is floor(count/1000)
\* below one million rows and floor(sqrt(count)) from one million rows on;
\* without dynamic sizing it is the configured value.
C8_ListCount ==
    opt.op = "optimize" =>
        LET n == opt.total_records
            r == opt.num_lists
        IN  IF ~index.dynamic_lists THEN r = index.lists
            ELSE IF n < 1000000 THEN r = n \div 1000
            ELSE r >= 0 /\ r * r <= n /\ n < (r + 1) * (r + 1)

C10_SearchNeverRaises ==
    ret.op = "search" => ~ret.raised

\* The keys of a filter mapping that name a column of the table
KnownOnly(filters) == {f \in filters : f[1] \in Columns}

\* C11: a search that ran its query returns what the same search returns
\* with the filter keys that name no column removed.
C11_UnknownKeysIgnored ==
    (ret.op = "search" /\ ret.embedded /\ ~ret.failed) =>
        ret.value \in search_values(table, ret.query, ret.limit,
                                    KnownOnly(ret.filters))

\* C12: a document for which the provider failed or returned nothing ends the
\* insert / upsert call with the failure, is never staged, and no row without
\* an embedding is staged or stored.
C12_UnembeddedNeverStored ==
    /\ \A k \in 1..Len(documents) :
          documents[k].embedding = NoEmbedding =>
              /\ pc = "done" /\ raised # "none"
              /\ k = Len(documents) /\ pos = k
    /\ \A r \in table \cup sess : r.embedding # NoEmbedding

\* C13: a provision() call made while the table is there completes without
\* error and leaves the table and its rows as they were, also when the
\* existence check itself fails.
C13_ProvisionIdempotent ==
    [][(pc = "idle" /\ ret'.op = "create" /\ ret'.had_table) =>
          (~ret'.raised /\ table_present' /\ table' = table)]_vars

\* C14: callers that run search or provision at the same time, the table
\* missing or not, all complete without raising, and the table is there when
\* one has completed.
C14_ColdCallsComplete ==
    \A c \in Callers :
        callers[c].op \in {"search", "create"} =>
            /\ callers[c].raised = "none"
            /\ callers[c].pc = "done" => table_present

\* The six columns an upsert writes are those of the values v
Written(r, v) ==
    /\ r.name = v.name /\ r.meta_data = v.meta_data /\ r.content = v.content
    /\ r.embedding = v.embedding /\ r.usage = v.usage
    /\ r.content_hash = v.content_hash

\* C15: the row of an identity that committed batches of concurrent calls
\* have written holds in name, meta_data, content, embedding, usage and
\* content_hash the values of one statement, the last one on that identity
\* of the batch that committed last; and there is one row of the identity.
C15_LastCommitWins ==
    \A w \in won :
        /\ \E r \in table : r.id = w.v.id /\ Written(r, w.v)
        /\ Cardinality({r \in table : r.id = w.v.id}) = 1

C15_Witness ==
    \E w \in won :
        /\ w.writers = Callers
        /\ \A c \in Callers : callers[c].op = "upsert"
        /\ callers[w.caller].pc = "done"
        /\ callers[Other(w.caller)].pc \in {"loop", "exec"}
        /\ \E r \in table :
              /\ r.id = w.v.id
              /\ r.created_at = Other(w.caller)
              /\ r.name = w.v.name /\ r.usage = w.v.usage

\* C16: when an operation's transaction has ended, no parameter it set is in
\* effect on the connection the next operation gets.
C16_NoParameterOutlivesTransaction ==
    pc = "idle" => (conn.session = {} /\ conn.local = {})

\* C17: two concurrent insert / upsert calls never come to wait for each
\* other, each for a row the other's open batch has written.
C17_NoMutualWait ==
    \A c \in Callers : ~(Waits(c, Other(c)) /\ Waits(Other(c), c))

ReadOps == {"search", "doc_exists", "name_exists", "id_exists", "get_count",
            "exists"}

\* C18: search, existsByContent, existsByName, existsById, count and exists
\* leave the rows of the table as they were, every column of every row; a
\* table that was there is still there.
C18_ReadsLeaveRows ==
    [][(pc = "idle" /\ ret'.op \in ReadOps) =>
          (table' = table /\ (table_present => table_present'))]_vars

C18_Witness ==
    /\ ret.op = "search" /\ ret.had_table /\ ret.failed
    /\ ret.recovery = "accepted"
    /\ table # {}

\* C19: once an index is built, every later optimize() leaves it as it is,
\* whatever list count that call computes; an optimize() that finds no index
\* builds one with the list count it computed.
C19_IndexBuiltOnce ==
    [][/\ (ann # NoIndex /\ opt'.op \in {"optimize", "optimize_hnsw"}) =>
             ann' = ann
       /\ (ann = NoIndex /\ opt'.op = "optimize" /\ ~opt'.raised) =>
             (ann' # NoIndex /\ ann'.lists = opt'.num_lists)]_vars

C19_Witness ==
    /\ ann # NoIndex /\ ann.kind = "ivfflat"
    /\ opt.op = "optimize" /\ ~opt.raised
    /\ opt.num_lists # ann.lists

\* C20: for a list index configured with a list count of at least 1,
\* optimize() asks for an index of at least 1 list, whatever the row count
\* and the dynamic-sizing flag.
C20_ListsAtLeastOne ==
    (opt.op = "optimize" /\ index.lists >= 1) => opt.num_lists >= 1

====
